---- MODULE Spec2Model ----
(***************************************************************************)
(* A model of tria's serialization subsystem (src/src/writers.py).         *)
(*                                                                         *)
(* Python values are tagged records: None, bool, int, str, list and dict.  *)
(* A str is a sequence of one-character strings, so that quoting,          *)
(* indentation and text equality are computed character by character.      *)
(* A dict is a sequence of <<key, value>> pairs in insertion order.        *)
(*                                                                         *)
(* The variables: the arguments of a write call (documents, git_analyzer,  *)
(* commits_limit), the encoder instance (self), the position of the call   *)
(* (pc), which write ran (writer), what it rendered (output), the          *)
(* collaborator calls it made (calls), the destination file (dest) and the *)
(* logger's records (log); the argument and result of a TOON function      *)
(* (value, rendered); the tree and loop position of a build pass           *)
(* (folder_tree, processed); and the command line, file system and return  *)
(* value of tria.main (args, repo, exit_code); and the number of write     *)
(* calls made so far (write_calls).                                        *)
(***************************************************************************)
EXTENDS Integers, Sequences, FiniteSets, TLC

VARIABLES documents, git_analyzer, commits_limit, pc, writer, output, calls,
          dest, value, rendered, self, log, folder_tree, processed, args,
          repo, exit_code, write_calls

vars == <<documents, git_analyzer, commits_limit, pc, writer, output, calls,
          dest, value, rendered, self, log, folder_tree, processed, args,
          repo, exit_code, write_calls>>

(***************************************************************************)
(* Bounds of the model.                                                    *)
(***************************************************************************)
MaxDocs == 3
MaxDepth == 2
MaxStrLen == 2
MaxArrLen == 2
MaxReturned == 11
MaxCommits == 2
MaxCommitsLimit == 1
MaxTreeDepth == 3
MaxTreeDocs == 2
MaxCalls == 2
MaxSessionDocs == 2

(***************************************************************************)
(* Python values.                                                          *)
(***************************************************************************)
NoneV == [t |-> "none"]
BoolV(b) == [t |-> "bool", v |-> b]
IntV(n) == [t |-> "int", v |-> n]
StrV(s) == [t |-> "str", v |-> s]
ListV(xs) == [t |-> "list", v |-> xs]
DictV(kvs) == [t |-> "dict", v |-> kvs]
\* set(): the empty set, a value json cannot serialize
SetV == [t |-> "set", v |-> <<>>]

IsDict(x) == x.t = "dict"
IsList(x) == x.t = "list"

Range(s) == {s[i] : i \in 1..Len(s)}

\* the sequences over S of length up to n
SeqsUpTo(S, n) == UNION {[1..k -> S] : k \in 0..n}

\* dict.keys(): the keys in insertion order
Keys(d) == [i \in 1..Len(d.v) |-> d.v[i][1]]

\* key in dict
HasKey(d, k) == \E i \in 1..Len(d.v) : d.v[i][1] = k

\* dict.get(key): the value, None when the key is absent
Get(d, k) ==
  IF HasKey(d, k)
  THEN d.v[CHOOSE i \in 1..Len(d.v) : d.v[i][1] = k][2]
  ELSE NoneV

\* a bug: an existing key is deleted and inserted again, at the end
SetItem_MoveToEnd(d, k, val) ==
  DictV(Append(SelectSeq(d.v, LAMBDA kv : kv[1] # k), <<k, val>>))

\* dict[key] = val: an existing key keeps its position, a new key is appended
SetItem(d, k, val) ==
  IF HasKey(d, k)
  THEN DictV([i \in 1..Len(d.v) |-> IF d.v[i][1] = k THEN <<k, val>> ELSE d.v[i]])
  ELSE DictV(Append(d.v, <<k, val>>))

(***************************************************************************)
(* Strings as character sequences.                                         *)
(***************************************************************************)
RECURSIVE ConcatRange(_, _, _)
\* the concatenation of ss[lo..hi]; halving keeps the evaluation shallow
ConcatRange(ss, lo, hi) ==
  IF lo > hi THEN <<>>
  ELSE IF lo = hi THEN ss[lo]
  ELSE LET mid == (lo + hi) \div 2
       IN ConcatRange(ss, lo, mid) \o ConcatRange(ss, mid + 1, hi)

\* "".join(parts), and list.extend over a sequence of lists
Concat(ss) == LET parts == ss \o <<>> IN ConcatRange(parts, 1, Len(parts))

\* sep.join(parts)
Join(sep, ss) ==
  Concat([i \in 1..Len(ss) |-> IF i = 1 THEN ss[i] ELSE sep \o ss[i]])

\* ch in s
Contains(s, ch) == \E i \in 1..Len(s) : s[i] = ch

Whitespace == {" ", "\n", "\t", "\r"}

RECURSIVE LStrip(_)
LStrip(s) ==
  IF s # <<>> /\ Head(s) \in Whitespace THEN LStrip(Tail(s)) ELSE s

RECURSIVE RStrip(_)
RStrip(s) ==
  IF s # <<>> /\ s[Len(s)] \in Whitespace
  THEN RStrip(SubSeq(s, 1, Len(s) - 1)) ELSE s

\* str.strip()
Strip(s) == RStrip(LStrip(s))

\* str.replace(old, new) for a one-character old
Replace(s, old, new) ==
  Concat([i \in 1..Len(s) |-> IF s[i] = old THEN new ELSE <<s[i]>>])

DigitChars == <<"0", "1", "2", "3", "4", "5", "6", "7", "8", "9">>

RECURSIVE IntStr(_)
\* str(n) for an int
IntStr(n) ==
  IF n < 0 THEN <<"-">> \o IntStr(0 - n)
  ELSE IF n < 10 THEN <<DigitChars[n + 1]>>
  ELSE IntStr(n \div 10) \o <<DigitChars[(n % 10) + 1]>>

\* "  " * indent
Spaces(n) == [i \in 1..n |-> " "]

\* repr() of a str: single quotes unless the text holds ' and no "
StrRepr(s) ==
  LET q == IF Contains(s, "'") /\ ~Contains(s, "\"") THEN "\"" ELSE "'"
      esc(c) == IF c = "\\" THEN <<"\\", "\\">>
                ELSE IF c = "\n" THEN <<"\\", "n">>
                ELSE IF c = "\t" THEN <<"\\", "t">>
                ELSE IF c = "\r" THEN <<"\\", "r">>
                ELSE IF c = q THEN <<"\\", c>>
                ELSE <<c>>
  IN <<q>> \o Concat([i \in 1..Len(s) |-> esc(s[i])]) \o <<q>>

RECURSIVE PyRepr(_)
\* repr() of a value, as str() applies it to the items of a list or dict
PyRepr(x) ==
  IF x.t = "none" THEN <<"N", "o", "n", "e">>
  ELSE IF x.t = "bool"
       THEN (IF x.v THEN <<"T", "r", "u", "e">> ELSE <<"F", "a", "l", "s", "e">>)
  ELSE IF x.t = "int" THEN IntStr(x.v)
  ELSE IF x.t = "str" THEN StrRepr(x.v)
  ELSE IF x.t = "set" THEN <<"s", "e", "t", "(", ")">>
  ELSE IF x.t = "list"
       THEN <<"[">> \o Join(<<",", " ">>, [i \in 1..Len(x.v) |-> PyRepr(x.v[i])])
            \o <<"]">>
  ELSE <<"{">>
       \o Join(<<",", " ">>,
               [i \in 1..Len(x.v) |->
                  StrRepr(x.v[i][1]) \o <<":", " ">> \o PyRepr(x.v[i][2])])
       \o <<"}">>

\* str() of a value: a str is itself, anything else is its repr
PyStr(x) == IF x.t = "str" THEN x.v ELSE PyRepr(x)

(***************************************************************************)
(* TOONWriter: scalar escaping and the recursive formatter.                *)
(***************************************************************************)
\* a bug: the comma is left out of the test
NeedsQuote_NoComma(s) == Contains(s, "\n") \/ s # Strip(s) \/ Contains(s, "\"")

\* the test that decides quoting in _escape_value
NeedsQuote(s) ==
  Contains(s, ",") \/ Contains(s, "\n") \/ s # Strip(s) \/ Contains(s, "\"")

\* the quoted form: internal double quotes doubled, wrapped in double quotes
Quoted(s) == <<"\"">> \o Replace(s, "\"", <<"\"", "\"">>) \o <<"\"">>

_escape_value(x) ==
  IF x.t = "none" THEN <<>>
  ELSE IF x.t = "bool"
       THEN (IF x.v THEN <<"t", "r", "u", "e">> ELSE <<"f", "a", "l", "s", "e">>)
  ELSE IF x.t = "int" THEN IntStr(x.v)
  ELSE LET s == PyStr(x) IN IF NeedsQuote(s) THEN Quoted(s) ELSE s

\* set(item.keys())
KeySet(d) == Range(Keys(d))

\* a bug: the key sets are not compared
IsUniform_AnyKeys(arr) == \A i \in 1..Len(arr) : IsDict(arr[i])

\* all(isinstance(item, dict)) and all items have the key set of the first
IsUniform(arr) ==
  /\ \A i \in 1..Len(arr) : IsDict(arr[i])
  /\ \A i \in 1..Len(arr) : KeySet(arr[i]) = KeySet(arr[1])

\* all(not isinstance(item, (dict, list)))
IsPrimitives(arr) == \A i \in 1..Len(arr) : ~IsDict(arr[i]) /\ ~IsList(arr[i])

\* the branch _format_array takes
ArrayForm(arr) ==
  IF arr = <<>> THEN "empty"
  ELSE IF IsUniform(arr) THEN "tabular"
  ELSE IF IsPrimitives(arr) THEN "inline"
  ELSE "block"

\* "[<len>]"
CountTag(arr) == <<"[">> \o IntStr(Len(arr)) \o <<"]">>

\* the tabular form: header with the first item's keys, one row per item
TabularLines(arr) ==
  LET keys == Keys(arr[1])
      row(item) == <<" ", " ">>
                   \o Join(<<",">>, [j \in 1..Len(keys) |->
                                       _escape_value(Get(item, keys[j]))])
  IN <<CountTag(arr) \o <<"{">> \o Join(<<",">>, keys) \o <<"}", ":">>>>
     \o [i \in 1..Len(arr) |-> row(arr[i])]

\* the inline form: all values on the header line
InlineLines(arr) ==
  <<CountTag(arr) \o <<":", " ">>
    \o Join(<<",">>, [i \in 1..Len(arr) |-> _escape_value(arr[i])])>>

RECURSIVE _format_array(_, _), _format_value(_, _)
_format_array(arr, indent) ==
  LET form == ArrayForm(arr) IN
  IF form = "empty" THEN << <<"[", "0", "]", ":", " ">> >>
  ELSE IF form = "tabular" THEN TabularLines(arr)
  ELSE IF form = "inline" THEN InlineLines(arr)
  ELSE <<CountTag(arr) \o <<":">>>>
       \o Concat([i \in 1..Len(arr) |-> _format_value(arr[i], indent + 1)])

_format_value(x, indent) ==
  LET prefix == Spaces(2 * indent)
      entry(key, val) ==
        IF IsList(val)
        THEN LET array_lines == _format_array(val.v, indent)
             IN <<prefix \o key \o array_lines[1]>>
                \o [j \in 1..(Len(array_lines) - 1) |-> prefix \o array_lines[j + 1]]
        ELSE IF IsDict(val)
        THEN <<prefix \o key \o <<":">>>> \o _format_value(val, indent + 1)
        ELSE <<prefix \o key \o <<":", " ">> \o _escape_value(val)>>
  IN IF IsDict(x)
     THEN Concat([i \in 1..Len(x.v) |-> entry(x.v[i][1], x.v[i][2])])
     ELSE IF IsList(x) THEN _format_array(x.v, indent)
     ELSE <<prefix \o _escape_value(x)>>

(***************************************************************************)
(* Documents and the folder tree.                                          *)
(***************************************************************************)
K_path == <<"p", "a", "t", "h">>
K_lines == <<"l", "i", "n", "e", "s">>
K_type == <<"t", "y", "p", "e">>
K_files == <<"f", "i", "l", "e", "s">>
K_classes == <<"c", "l", "a", "s", "s", "e", "s">>
K_functions == <<"f", "u", "n", "c", "t", "i", "o", "n", "s">>
K_headers == <<"h", "e", "a", "d", "e", "r", "s">>
K_header == <<"h", "e", "a", "d", "e", "r">>
K_image == <<"i", "m", "a", "g", "e">>
K_workdir == <<"w", "o", "r", "k", "d", "i", "r">>
K_entrypoint == <<"e", "n", "t", "r", "y", "p", "o", "i", "n", "t">>
K_cmd == <<"c", "m", "d">>
K_env == <<"e", "n", "v">>

TypeError == [t |-> "error"]
IsError(x) == x.t = "error"

RECURSIVE SplitOn(_, _)
\* str.split(sep) for a one-character sep
SplitOn(s, sep) ==
  IF ~Contains(s, sep) THEN <<s>>
  ELSE LET i == CHOOSE k \in 1..Len(s) :
                  s[k] = sep /\ \A j \in 1..(k - 1) : s[j] # sep
       IN <<SubSeq(s, 1, i - 1)>> \o SplitOn(SubSeq(s, i + 1, Len(s)), sep)

\* Path(path).parts: the segments between slashes, without empty and "."
\* segments, preceded by the root of an absolute path
Parts(path) ==
  LET segs == SelectSeq(SplitOn(path, "/"), LAMBDA g : g # <<>> /\ g # <<".">>)
      root == IF Len(path) >= 2 /\ path[1] = "/" /\ path[2] = "/"
                 /\ ~(Len(path) >= 3 /\ path[3] = "/")
              THEN << <<"/", "/">> >>
              ELSE IF Len(path) >= 1 /\ path[1] = "/" THEN << <<"/">> >>
              ELSE <<>>
  IN root \o segs

RECURSIVE AddPath_ResetDir(_, _)
\* a bug: "current[part] = {}" without the test "part not in current"
AddPath_ResetDir(tree, parts) ==
  IF parts = <<>> THEN tree
  ELSE IF Len(parts) = 1 THEN SetItem(tree, parts[1], NoneV)
  ELSE SetItem(tree, parts[1], AddPath_ResetDir(DictV(<<>>), Tail(parts)))

RECURSIVE AddPath(_, _)
\* one iteration of the loop of build_folder_structure: walk or create the
\* directories of parts[:-1], then mark the last part as a file.  Walking
\* into a part that is a file (None) raises TypeError.
AddPath(tree, parts) ==
  IF parts = <<>> THEN tree
  ELSE IF Len(parts) = 1 THEN SetItem(tree, parts[1], NoneV)
  ELSE LET part == parts[1]
           current == IF HasKey(tree, part) THEN Get(tree, part) ELSE DictV(<<>>)
       IN IF ~IsDict(current) THEN TypeError
          ELSE LET sub == AddPath(current, Tail(parts))
               IN IF IsError(sub) THEN TypeError ELSE SetItem(tree, part, sub)

RECURSIVE BuildFrom(_, _)
BuildFrom(tree, docs) ==
  IF docs = <<>> \/ IsError(tree) THEN tree
  ELSE BuildFrom(AddPath(tree, Parts(docs[1].path)), Tail(docs))

build_folder_structure(docs) == BuildFrom(DictV(<<>>), docs)

\* f"{path}/{name}" if path else name
ChildPath(path, name) == IF path # <<>> THEN path \o <<"/">> \o name ELSE name

RECURSIVE tree_to_list_FilesOnAll(_, _)
\* a bug: file entries get an empty "files" list too
tree_to_list_FilesOnAll(tree, path) ==
  [i \in 1..Len(tree.v) |->
     LET name == tree.v[i][1]
         subtree == tree.v[i][2]
         current_path == ChildPath(path, name)
     IN DictV(<< <<K_path, StrV(current_path)>>,
                 <<K_type, StrV(IF subtree.t = "none" THEN <<"f", "i", "l", "e">>
                                ELSE <<"d", "i", "r", "e", "c", "t", "o", "r", "y">>)>>,
                 <<K_files,
                   ListV(IF subtree.t = "none" THEN <<>>
                         ELSE tree_to_list_FilesOnAll(subtree, current_path))>> >>)]

RECURSIVE tree_to_list(_, _)
tree_to_list(tree, path) ==
  [i \in 1..Len(tree.v) |->
     LET name == tree.v[i][1]
         subtree == tree.v[i][2]
         current_path == ChildPath(path, name)
     IN IF subtree.t = "none"
        THEN DictV(<< <<K_path, StrV(current_path)>>, <<K_type, StrV(<<"f", "i", "l", "e">>)>> >>)
        ELSE DictV(<< <<K_path, StrV(current_path)>>,
                      <<K_type, StrV(<<"d", "i", "r", "e", "c", "t", "o", "r", "y">>)>>,
                      <<K_files, ListV(tree_to_list(subtree, current_path))>> >>)]

\* an xml.etree element
Element(tag, attrib, text, children) ==
  [tag |-> tag, attrib |-> attrib, text |-> text, children |-> children]

RECURSIVE tree_to_xml_NameAsPath(_, _)
\* a bug: the path attribute is the name, without the directories above
tree_to_xml_NameAsPath(tree, path) ==
  [i \in 1..Len(tree.v) |->
     LET name == tree.v[i][1]
         subtree == tree.v[i][2]
     IN IF subtree.t = "none"
        THEN Element("file", << <<"path", name>> >>, NoneV, <<>>)
        ELSE Element("directory", << <<"path", name>> >>, NoneV,
                     tree_to_xml_NameAsPath(subtree, name))]

RECURSIVE tree_to_xml(_, _)
\* the elements tree_to_xml appends to its parent
tree_to_xml(tree, path) ==
  [i \in 1..Len(tree.v) |->
     LET name == tree.v[i][1]
         subtree == tree.v[i][2]
         current_path == ChildPath(path, name)
     IN IF subtree.t = "none"
        THEN Element("file", << <<"path", current_path>> >>, NoneV, <<>>)
        ELSE Element("directory", << <<"path", current_path>> >>, NoneV,
                     tree_to_xml(subtree, current_path))]


(***************************************************************************)
(* The inputs of write: documents, the git collaborator, the environment.  *)
(***************************************************************************)
K_repo == <<"r", "e", "p", "o">>
K_name == <<"n", "a", "m", "e">>
K_generated_at == <<"g", "e", "n", "e", "r", "a", "t", "e", "d", "_", "a", "t">>
K_files_processed == <<"f", "i", "l", "e", "s", "_", "p", "r", "o", "c", "e", "s", "s", "e", "d">>
K_structure == <<"s", "t", "r", "u", "c", "t", "u", "r", "e">>
K_git_history == <<"g", "i", "t", "_", "h", "i", "s", "t", "o", "r", "y">>
K_summary == <<"s", "u", "m", "m", "a", "r", "y">>
K_branches == <<"b", "r", "a", "n", "c", "h", "e", "s">>
K_recent_commits == <<"r", "e", "c", "e", "n", "t", "_", "c", "o", "m", "m", "i", "t", "s">>
K_contributors == <<"c", "o", "n", "t", "r", "i", "b", "u", "t", "o", "r", "s">>
K_is_current == <<"i", "s", "_", "c", "u", "r", "r", "e", "n", "t">>
K_last_commit == <<"l", "a", "s", "t", "_", "c", "o", "m", "m", "i", "t">>
K_last_commit_date == <<"l", "a", "s", "t", "_", "c", "o", "m", "m", "i", "t", "_", "d", "a", "t", "e">>
K_hash == <<"h", "a", "s", "h">>
K_author == <<"a", "u", "t", "h", "o", "r">>
K_email == <<"e", "m", "a", "i", "l">>
K_date == <<"d", "a", "t", "e">>
K_message == <<"m", "e", "s", "s", "a", "g", "e">>
K_files_changed == <<"f", "i", "l", "e", "s", "_", "c", "h", "a", "n", "g", "e", "d">>
K_insertions == <<"i", "n", "s", "e", "r", "t", "i", "o", "n", "s">>
K_deletions == <<"d", "e", "l", "e", "t", "i", "o", "n", "s">>
K_commits == <<"c", "o", "m", "m", "i", "t", "s">>
K_language == <<"l", "a", "n", "g", "u", "a", "g", "e">>
K_size_bytes == <<"s", "i", "z", "e", "_", "b", "y", "t", "e", "s">>
K_metadata == <<"m", "e", "t", "a", "d", "a", "t", "a">>
K_current_branch == <<"c", "u", "r", "r", "e", "n", "t", "_", "b", "r", "a", "n", "c", "h">>
K_total_commits == <<"t", "o", "t", "a", "l", "_", "c", "o", "m", "m", "i", "t", "s">>
K_total_contributors == <<"t", "o", "t", "a", "l", "_", "c", "o", "n", "t", "r", "i", "b", "u", "t", "o", "r", "s">>
K_first_commit_date == <<"f", "i", "r", "s", "t", "_", "c", "o", "m", "m", "i", "t", "_", "d", "a", "t", "e">>

L_python == <<"p", "y", "t", "h", "o", "n">>
L_markdown == <<"m", "a", "r", "k", "d", "o", "w", "n">>
L_license == <<"l", "i", "c", "e", "n", "s", "e">>
L_dockerfile == <<"d", "o", "c", "k", "e", "r", "f", "i", "l", "e">>
L_other == <<"o", "t", "h", "e", "r">>

\* a Document of src.data_models, as the writers read it
Document(path, language, meta) ==
  [path |-> path, language |-> language, size_bytes |-> 12, lines |-> 5,
   meta |-> meta]

\* the meta mapping the reader attaches to a document of each language
MetaOf(language) ==
  IF language = L_python
  THEN DictV(<< <<K_classes, ListV(<<StrV(<<"F", "o", "o">>)>>)>>,
                <<K_functions, ListV(<<>>)>> >>)
  ELSE IF language = L_markdown
  THEN DictV(<< <<K_headers, ListV(<<StrV(<<"T", "i", "t", "l", "e">>), StrV(<<"U", "s", "e">>)>>)>> >>)
  ELSE IF language = L_license
  THEN DictV(<< <<K_header, StrV(<<"M", "I", "T">>)>> >>)
  ELSE IF language = L_dockerfile
  THEN DictV(<< <<K_image, StrV(<<"p", "y">>)>>,
                <<K_env, DictV(<< <<<<"K">>, StrV(<<"v">>)>> >>)>> >>)
  ELSE DictV(<<>>)

\* the records GitAnalyzer returns; dates are day numbers
Branch(i) ==
  [name |-> <<"b">> \o IntStr(i), is_current |-> (i = 1),
   last_commit |-> <<"h">> \o IntStr(i), last_commit_date |-> i]

Commit(i) ==
  [hash |-> <<"h">> \o IntStr(i), author |-> <<"u">>, email |-> <<"u", "@", "x">>,
   date |-> i, message |-> <<"m">> \o IntStr(i), files_changed |-> i - 1,
   insertions |-> i, deletions |-> 0]

Contributor(i) ==
  [name |-> <<"u">> \o IntStr(i), email |-> <<"u", "@", "x">>, commits |-> i,
   insertions |-> i, deletions |-> 0]

\* a GitAnalyzer whose getters return nb branches, nc commits and nk
\* contributors, whatever limit it is asked for
GitAnalyzer(is_git_repo, summary, nb, nc, nk) ==
  [t |-> "git", is_git_repo |-> is_git_repo, summary |-> summary,
   branches |-> [i \in 1..nb |-> Branch(i)],
   commits |-> [i \in 1..nc |-> Commit(i)],
   contributors |-> [i \in 1..nk |-> Contributor(i)]]

Summaries ==
  {DictV(<< <<K_current_branch, StrV(<<"m", "a", "i", "n">>)>>, <<K_total_commits, IntV(3)>>,
            <<K_total_contributors, IntV(1)>> >>),
   DictV(<< <<K_current_branch, StrV(<<"m", "a", "i", "n">>)>>, <<K_total_commits, IntV(3)>>,
            <<K_total_contributors, IntV(1)>>,
            <<K_first_commit_date, StrV(<<"d", "1">>)>>,
            <<K_last_commit_date, StrV(<<"d", "3">>)>> >>)}

\* date.isoformat() and date.strftime(...) of a day number
IsoFormat(d) == <<"d">> \o IntStr(d)
StrfTime(d) == <<"d", "a", "y">> \o IntStr(d)

\* Path(repo_path).absolute().name, str(Path(repo_path).absolute()) and
\* datetime.now().isoformat() of the run
RepoName == <<"r">>
RepoAbsPath == <<"/", "r">>
Now == <<"T">>

\* the first n items: seq[:n]
Take(s, n) == SubSeq(s, 1, IF Len(s) < n THEN Len(s) ELSE n)

\* Python truthiness
Truthy(x) ==
  IF x.t = "none" THEN FALSE
  ELSE IF x.t = "bool" THEN x.v
  ELSE IF x.t = "int" THEN x.v # 0
  ELSE x.v # <<>>

\* dict.get(key, default)
GetOr(d, k, default) == IF HasKey(d, k) THEN Get(d, k) ELSE default

\* a bug: any collaborator supplied counts, repository or not
HasGit_AnySupplied(g) == g.t # "none"

\* "if git_analyzer and git_analyzer.is_git_repo"
HasGit(g) == g.t # "none" /\ g.is_git_repo

\* the collaborator calls a writer makes, in order
GitCalls(g, limit) ==
  IF HasGit(g)
  THEN <<[fn |-> "get_summary"], [fn |-> "get_branches"],
         [fn |-> "get_commits", limit |-> limit], [fn |-> "get_contributors"]>>
  ELSE <<>>

(***************************************************************************)
(* The document JsonWriter and TOONWriter assemble.                        *)
(***************************************************************************)
BranchLimit == 10
ContributorLimit == 10

BranchEntry(branch) ==
  DictV(<< <<K_name, StrV(branch.name)>>,
           <<K_is_current, BoolV(branch.is_current)>>,
           <<K_last_commit, StrV(branch.last_commit)>>,
           <<K_last_commit_date, StrV(IsoFormat(branch.last_commit_date))>> >>)

CommitEntry(commit) ==
  DictV(<< <<K_hash, StrV(commit.hash)>>,
           <<K_author, StrV(commit.author)>>,
           <<K_email, StrV(commit.email)>>,
           <<K_date, StrV(IsoFormat(commit.date))>>,
           <<K_message, StrV(commit.message)>>,
           <<K_files_changed, IntV(commit.files_changed)>>,
           <<K_insertions, IntV(commit.insertions)>>,
           <<K_deletions, IntV(commit.deletions)>> >>)

ContributorEntry(contrib) ==
  DictV(<< <<K_name, StrV(contrib.name)>>,
           <<K_email, StrV(contrib.email)>>,
           <<K_commits, IntV(contrib.commits)>>,
           <<K_insertions, IntV(contrib.insertions)>>,
           <<K_deletions, IntV(contrib.deletions)>> >>)

\* a bug: every branch returned is kept
GitBranches_Uncut(g) ==
  ListV([i \in 1..Len(g.branches) |-> BranchEntry(g.branches[i])])

\* git_data["branches"]: an entry for each of get_branches()[:10]
GitBranches(g) ==
  LET branches == Take(g.branches, BranchLimit)
  IN ListV([i \in 1..Len(branches) |-> BranchEntry(branches[i])])

\* git_data["recent_commits"]: an entry for every commit that
\* get_commits(limit=commits_limit) returned
GitCommits(g, limit) ==
  LET commits == g.commits
  IN ListV([i \in 1..Len(commits) |-> CommitEntry(commits[i])])

\* git_data["contributors"]: an entry for each of get_contributors()[:10]
GitContributors(g) ==
  LET contributors == Take(g.contributors, ContributorLimit)
  IN ListV([i \in 1..Len(contributors) |-> ContributorEntry(contributors[i])])

GitData(g, limit) ==
  DictV(<< <<K_summary, g.summary>>,
           <<K_branches, GitBranches(g)>>,
           <<K_recent_commits, GitCommits(g, limit)>>,
           <<K_contributors, GitContributors(g)>> >>)

\* file_info["metadata"], by language
Metadata(doc) ==
  IF doc.language = L_python
  THEN DictV(<< <<K_functions, GetOr(doc.meta, K_functions, ListV(<<>>))>>,
                <<K_classes, GetOr(doc.meta, K_classes, ListV(<<>>))>> >>)
  ELSE IF doc.language = L_markdown
  THEN DictV(<< <<K_headers, GetOr(doc.meta, K_headers, ListV(<<>>))>> >>)
  ELSE IF doc.language = L_license
  THEN DictV(<< <<K_header, GetOr(doc.meta, K_header, StrV(<<>>))>> >>)
  ELSE IF doc.language = L_dockerfile
  THEN DictV(<< <<K_image, GetOr(doc.meta, K_image, StrV(<<>>))>>,
                <<K_workdir, GetOr(doc.meta, K_workdir, StrV(<<>>))>>,
                <<K_entrypoint, GetOr(doc.meta, K_entrypoint, StrV(<<>>))>>,
                <<K_cmd, GetOr(doc.meta, K_cmd, StrV(<<>>))>>,
                <<K_env, GetOr(doc.meta, K_env, StrV(<<>>))>> >>)
  ELSE DictV(<<>>)

FileInfo(doc) ==
  DictV(<< <<K_path, StrV(doc.path)>>,
           <<K_language, StrV(doc.language)>>,
           <<K_size_bytes, IntV(doc.size_bytes)>>,
           <<K_lines, IntV(doc.lines)>>,
           <<K_metadata, Metadata(doc)>> >>)

RepoInfo(docs) ==
  DictV(<< <<K_name, StrV(RepoName)>>,
           <<K_path, StrV(RepoAbsPath)>>,
           <<K_generated_at, StrV(Now)>>,
           <<K_files_processed, IntV(Len(docs))>> >>)

\* the output mapping: repo, structure, files (filled after the git section)
\* and, with a git repository, git_history
OutputDocument(structure, docs, g, limit) ==
  LET files == ListV([i \in 1..Len(docs) |-> FileInfo(docs[i])])
      base == DictV(<< <<K_repo, RepoInfo(docs)>>,
                       <<K_structure, ListV(structure)>>,
                       <<K_files, files>> >>)
  IN IF HasGit(g) THEN SetItem(base, K_git_history, GitData(g, limit)) ELSE base


(***************************************************************************)
(* MarkdownWriter.                                                         *)
(***************************************************************************)
\* the box-drawing characters, written in ASCII: "L" for the corner of the
\* last sibling, "+" for the tee, "-" for the dash and "|" for the bar;
\* "^" stands for the backquote of a code fence
Corner == "L"
Backquote == "^"
Tee == "+"
Dash == "-"
Bar == "|"

RECURSIVE format_tree_md_ParentLast(_, _, _)
\* a bug: the extension follows is_last, the parent's flag, not is_last_item
format_tree_md_ParentLast(tree, prefix, is_last) ==
  Concat([i \in 1..Len(tree.v) |->
     LET name == tree.v[i][1]
         subtree == tree.v[i][2]
         is_last_item == (i = Len(tree.v))
         connector == IF is_last_item THEN <<Corner, Dash, Dash, " ">>
                      ELSE <<Tee, Dash, Dash, " ">>
         extension == IF is_last THEN <<" ", " ", " ", " ">>
                      ELSE <<Bar, " ", " ", " ">>
     IN <<prefix \o connector \o name>>
        \o (IF subtree.t # "none"
            THEN format_tree_md_ParentLast(subtree, prefix \o extension, is_last_item)
            ELSE <<>>)])

RECURSIVE format_tree_md(_, _, _)
format_tree_md(tree, prefix, is_last) ==
  Concat([i \in 1..Len(tree.v) |->
     LET name == tree.v[i][1]
         subtree == tree.v[i][2]
         is_last_item == (i = Len(tree.v))
         connector == IF is_last_item THEN <<Corner, Dash, Dash, " ">>
                      ELSE <<Tee, Dash, Dash, " ">>
         extension == IF is_last_item THEN <<" ", " ", " ", " ">>
                      ELSE <<Bar, " ", " ", " ">>
     IN <<prefix \o connector \o name>>
        \o (IF subtree.t # "none"
            THEN format_tree_md(subtree, prefix \o extension, is_last_item)
            ELSE <<>>)])

MD_GitHistory == <<"#", "#", " ", "G", "i", "t", " ", "H", "i", "s", "t", "o", "r", "y", "\n">>
MD_Branches == <<"#", "#", "#", " ", "B", "r", "a", "n", "c", "h", "e", "s", "\n">>
MD_RecentCommits == <<"#", "#", "#", " ", "R", "e", "c", "e", "n", "t", " ", "C", "o", "m", "m", "i", "t", "s", "\n">>
MD_Contributors == <<"#", "#", "#", " ", "C", "o", "n", "t", "r", "i", "b", "u", "t", "o", "r", "s", "\n">>

\* ', '.join of a list of strings
CommaJoin(xs) == Join(<<",", " ">>, [i \in 1..Len(xs.v) |-> PyStr(xs.v[i])])

MdSummary(summary) ==
  <<<<"*", "*", "C", "u", "r", "r", "e", "n", "t", " ", "B", "r", "a", "n", "c", "h", ":", "*", "*", " ">> \o PyStr(GetOr(summary, K_current_branch, StrV(<<"N", "/", "A">>))) \o <<" ", " ">>,
    <<"*", "*", "T", "o", "t", "a", "l", " ", "C", "o", "m", "m", "i", "t", "s", ":", "*", "*", " ">> \o PyStr(GetOr(summary, K_total_commits, IntV(0))) \o <<" ", " ">>,
    <<"*", "*", "C", "o", "n", "t", "r", "i", "b", "u", "t", "o", "r", "s", ":", "*", "*", " ">> \o PyStr(GetOr(summary, K_total_contributors, IntV(0))) \o <<" ", " ">>>>
  \o (IF Truthy(Get(summary, K_first_commit_date))
      THEN <<<<"*", "*", "F", "i", "r", "s", "t", " ", "C", "o", "m", "m", "i", "t", ":", "*", "*", " ">> \o PyStr(Get(summary, K_first_commit_date)) \o <<" ", " ">>>>
      ELSE <<>>)
  \o (IF Truthy(Get(summary, K_last_commit_date))
      THEN <<<<"*", "*", "L", "a", "s", "t", " ", "C", "o", "m", "m", "i", "t", ":", "*", "*", " ">> \o PyStr(Get(summary, K_last_commit_date)) \o <<" ", " ">>>>
      ELSE <<>>)
  \o << <<>> >>

MdBranches(branches) ==
  IF branches = <<>> THEN <<>>
  ELSE <<MD_Branches>>
       \o [i \in 1..Len(Take(branches, BranchLimit)) |->
             (IF branches[i].is_current THEN <<"*", " ">> ELSE <<"-", " ">>)
             \o <<"*", "*">> \o branches[i].name \o <<"*", "*", " ", "(", "L", "a", "s", "t", ":", " ">> \o branches[i].last_commit
             \o <<",", " ">> \o StrfTime(branches[i].last_commit_date) \o <<")">>]
       \o << <<>> >>

MdCommits(commits) ==
  IF commits = <<>> THEN <<>>
  ELSE <<MD_RecentCommits>>
       \o Concat([i \in 1..Len(commits) |->
             <<<<"-", " ", "*", "*">> \o commits[i].hash \o <<"*", "*", " ", "-", " ">> \o commits[i].message,
               <<" ", " ", "*">> \o commits[i].author \o <<"*", " ", "o", "n", " ">> \o StrfTime(commits[i].date)>>
             \o (IF commits[i].files_changed > 0
                 THEN <<<<" ", " ">> \o IntStr(commits[i].files_changed) \o <<" ", "f", "i", "l", "e", "s", ":", " ", "+">>
                        \o IntStr(commits[i].insertions) \o <<"/", "-">>
                        \o IntStr(commits[i].deletions)>>
                 ELSE <<>>)])
       \o << <<>> >>

MdContributors(contributors) ==
  IF contributors = <<>> THEN <<>>
  ELSE <<MD_Contributors>>
       \o Concat([i \in 1..Len(Take(contributors, ContributorLimit)) |->
             <<<<"-", " ", "*", "*">> \o contributors[i].name \o <<"*", "*", " ", "(">> \o contributors[i].email \o <<")">>,
               <<" ", " ">> \o IntStr(contributors[i].commits) \o <<" ", "c", "o", "m", "m", "i", "t", "s", ",", " ", "+">>
               \o IntStr(contributors[i].insertions) \o <<"/", "-">>
               \o IntStr(contributors[i].deletions)>>])
       \o << <<>> >>

\* the Git History section of the markdown
MdGit(g) ==
  <<MD_GitHistory>> \o MdSummary(g.summary) \o MdBranches(g.branches)
  \o MdCommits(g.commits) \o MdContributors(g.contributors)

\* an optional metadata line: label and text when the value is truthy
MdMeta(doc, k, label) ==
  IF Truthy(Get(doc.meta, k))
  THEN <<label \o (IF IsList(Get(doc.meta, k)) THEN CommaJoin(Get(doc.meta, k))
                   ELSE PyStr(Get(doc.meta, k))) \o <<" ", " ">>>>
  ELSE <<>>

MdEnv(doc) ==
  IF Truthy(Get(doc.meta, K_env))
  THEN LET env == Get(doc.meta, K_env)
       IN <<<<"*", "E", "N", "V", ":", "*", " ">>
            \o Join(<<",", " ">>,
                    [i \in 1..Len(env.v) |-> env.v[i][1] \o <<"=">> \o PyStr(env.v[i][2])])
            \o <<" ", " ">>>>
  ELSE <<>>

\* the subsection of one document
MdFile(doc) ==
  <<<<"#", "#", "#", " ">> \o doc.path,
    <<"*", "L", "a", "n", "g", "u", "a", "g", "e", ":", "*", " ">> \o doc.language \o <<" ", " ">>,
    <<"*", "S", "i", "z", "e", ":", "*", " ">> \o IntStr(doc.size_bytes) \o <<" ", "b", "y", "t", "e", "s", ",", " ">> \o IntStr(doc.lines)
    \o <<" ", "l", "i", "n", "e", "s", " ", " ">>>>
  \o (IF doc.language = L_python
      THEN MdMeta(doc, K_classes, <<"*", "C", "l", "a", "s", "s", "e", "s", ":", "*", " ">>)
           \o MdMeta(doc, K_functions, <<"*", "F", "u", "n", "c", "t", "i", "o", "n", "s", ":", "*", " ">>)
      ELSE IF doc.language = L_markdown
      THEN MdMeta(doc, K_headers, <<"*", "H", "e", "a", "d", "e", "r", "s", ":", "*", " ">>)
      ELSE IF doc.language = L_license
      THEN MdMeta(doc, K_header, <<"*", "H", "e", "a", "d", "e", "r", ":", "*", " ">>)
      ELSE IF doc.language = L_dockerfile
      THEN MdMeta(doc, K_image, <<"*", "I", "m", "a", "g", "e", ":", "*", " ">>)
           \o MdMeta(doc, K_workdir, <<"*", "W", "o", "r", "k", "d", "i", "r", ":", "*", " ">>)
           \o MdMeta(doc, K_entrypoint, <<"*", "E", "n", "t", "r", "y", "p", "o", "i", "n", "t", ":", "*", " ">>)
           \o MdMeta(doc, K_cmd, <<"*", "C", "M", "D", ":", "*", " ">>)
           \o MdEnv(doc)
      ELSE <<>>)
  \o << <<>> >>

\* the content list of MarkdownWriter.write, given the tree
MarkdownContent(tree, docs, g) ==
  <<<<"#", " ", "R", "e", "p", "o", " ", "S", "u", "m", "m", "a", "r", "y", ":", " ">> \o RepoName \o <<"\n">>,
    <<"*", "*", "G", "e", "n", "e", "r", "a", "t", "e", "d", ":", "*", "*", " ">> \o Now \o <<" ", " ">>,
    <<"*", "*", "F", "i", "l", "e", "s", " ", "p", "r", "o", "c", "e", "s", "s", "e", "d", ":", "*", "*", " ">> \o IntStr(Len(docs)) \o <<"\n">>>>
  \o (IF HasGit(g) THEN MdGit(g) ELSE <<>>)
  \o <<<<"#", "#", " ", "F", "o", "l", "d", "e", "r", " ", "S", "t", "r", "u", "c", "t", "u", "r", "e", "\n">>, <<Backquote, Backquote, Backquote>>>>
  \o format_tree_md(tree, <<>>, TRUE)
  \o <<<<Backquote, Backquote, Backquote, "\n">>, <<"#", "#", " ", "F", "i", "l", "e", "s", "\n">>>>
  \o Concat([i \in 1..Len(docs) |-> MdFile(docs[i])])

(***************************************************************************)
(* XMLWriter.                                                              *)
(***************************************************************************)
\* ET.SubElement(parent, tag).text = text
TextElement(tag, text) == Element(tag, <<>>, text, <<>>)

XmlSummary(summary) ==
  Element("summary", <<>>, NoneV,
    <<TextElement("current_branch", GetOr(summary, K_current_branch, StrV(<<"N", "/", "A">>))),
      TextElement("total_commits", StrV(PyStr(GetOr(summary, K_total_commits, IntV(0))))),
      TextElement("total_contributors",
                  StrV(PyStr(GetOr(summary, K_total_contributors, IntV(0)))))>>
    \o (IF Truthy(Get(summary, K_first_commit_date))
        THEN <<TextElement("first_commit_date", Get(summary, K_first_commit_date))>>
        ELSE <<>>)
    \o (IF Truthy(Get(summary, K_last_commit_date))
        THEN <<TextElement("last_commit_date", Get(summary, K_last_commit_date))>>
        ELSE <<>>))

XmlBranch(branch) ==
  Element("branch",
          << <<"current", IF branch.is_current THEN <<"t", "r", "u", "e">> ELSE <<"f", "a", "l", "s", "e">>>> >>,
          NoneV,
          <<TextElement("name", StrV(branch.name)),
            TextElement("last_commit", StrV(branch.last_commit)),
            TextElement("last_commit_date", StrV(IsoFormat(branch.last_commit_date)))>>)

XmlCommit(commit) ==
  Element("commit", <<>>, NoneV,
          <<TextElement("hash", StrV(commit.hash)),
            TextElement("author", StrV(commit.author)),
            TextElement("email", StrV(commit.email)),
            TextElement("date", StrV(IsoFormat(commit.date))),
            TextElement("message", StrV(commit.message)),
            TextElement("files_changed", StrV(IntStr(commit.files_changed))),
            TextElement("insertions", StrV(IntStr(commit.insertions))),
            TextElement("deletions", StrV(IntStr(commit.deletions)))>>)

XmlContributor(contrib) ==
  Element("contributor", <<>>, NoneV,
          <<TextElement("name", StrV(contrib.name)),
            TextElement("email", StrV(contrib.email)),
            TextElement("commits", StrV(IntStr(contrib.commits))),
            TextElement("insertions", StrV(IntStr(contrib.insertions))),
            TextElement("deletions", StrV(IntStr(contrib.deletions)))>>)

\* a bug: the <branches> element is added whether or not there are branches
XmlBranches_Always(branches) ==
  <<Element("branches", <<>>, NoneV,
            [i \in 1..Len(Take(branches, BranchLimit)) |-> XmlBranch(branches[i])])>>

\* "if branches:" a <branches> element with a <branch> for each of the
\* first 10
XmlBranches(branches) ==
  IF branches # <<>>
  THEN <<Element("branches", <<>>, NoneV,
                 [i \in 1..Len(Take(branches, BranchLimit)) |-> XmlBranch(branches[i])])>>
  ELSE <<>>

\* "if commits:" a <recent_commits> element with a <commit> for each
XmlCommits(commits) ==
  IF commits # <<>>
  THEN <<Element("recent_commits", <<>>, NoneV,
                 [i \in 1..Len(commits) |-> XmlCommit(commits[i])])>>
  ELSE <<>>

\* "if contributors:" a <contributors> element with a <contributor> for
\* each of the first 10
XmlContributors(contributors) ==
  IF contributors # <<>>
  THEN <<Element("contributors", <<>>, NoneV,
                 [i \in 1..Len(Take(contributors, ContributorLimit)) |->
                    XmlContributor(contributors[i])])>>
  ELSE <<>>

\* the <git_history> element
XmlGit(g) ==
  Element("git_history", <<>>, NoneV,
    <<XmlSummary(g.summary)>> \o XmlBranches(g.branches) \o XmlCommits(g.commits)
    \o XmlContributors(g.contributors))

\* a wrapper element with one child per item of a list, when the list is truthy
XmlItems(doc, k, wrapper, tag) ==
  IF Truthy(Get(doc.meta, k))
  THEN LET items == Get(doc.meta, k).v
       IN <<Element(wrapper, <<>>, NoneV,
                    [i \in 1..Len(items) |-> TextElement(tag, items[i])])>>
  ELSE <<>>

\* a text element for a truthy scalar
XmlScalar(doc, k, tag) ==
  IF Truthy(Get(doc.meta, k)) THEN <<TextElement(tag, Get(doc.meta, k))>> ELSE <<>>

XmlEnv(doc) ==
  IF Truthy(Get(doc.meta, K_env))
  THEN LET env == Get(doc.meta, K_env).v
       IN <<Element("env", <<>>, NoneV,
                    [i \in 1..Len(env) |->
                       Element("variable", << <<"name", env[i][1]>> >>, env[i][2], <<>>)])>>
  ELSE <<>>

XmlFile(doc) ==
  Element("file", <<>>, NoneV,
    <<TextElement("path", StrV(doc.path)),
      TextElement("language", StrV(doc.language)),
      TextElement("size_bytes", StrV(IntStr(doc.size_bytes))),
      TextElement("lines", StrV(IntStr(doc.lines))),
      Element("metadata", <<>>, NoneV,
        IF doc.language = L_python
        THEN XmlItems(doc, K_functions, "functions", "function")
             \o XmlItems(doc, K_classes, "classes", "class")
        ELSE IF doc.language = L_markdown
        THEN XmlItems(doc, K_headers, "headers", "header")
        ELSE IF doc.language = L_license
        THEN XmlScalar(doc, K_header, "header")
        ELSE IF doc.language = L_dockerfile
        THEN XmlScalar(doc, K_image, "image")
             \o XmlScalar(doc, K_workdir, "workdir")
             \o XmlScalar(doc, K_entrypoint, "entrypoint")
             \o XmlScalar(doc, K_cmd, "cmd")
             \o XmlEnv(doc)
        ELSE <<>>)>>)

\* the <repository> element of XMLWriter.write, given the tree
XmlRoot(tree, docs, g) ==
  Element("repository", <<>>, NoneV,
    <<Element("info", <<>>, NoneV,
        <<TextElement("name", StrV(RepoName)),
          TextElement("path", StrV(RepoAbsPath)),
          TextElement("generated_at", StrV(Now)),
          TextElement("files_processed", StrV(IntStr(Len(docs))))>>)>>
    \o (IF HasGit(g) THEN <<XmlGit(g)>> ELSE <<>>)
    \o <<Element("structure", <<>>, NoneV, tree_to_xml(tree, <<>>)),
         Element("files", <<>>, NoneV, [i \in 1..Len(docs) |-> XmlFile(docs[i])])>>)


(***************************************************************************)
(* The write methods.  Each action is one whole call of write on the       *)
(* inputs of the state: the collaborator calls, the rendering, the file    *)
(* written, the logger's records.  A TypeError of build_folder_structure   *)
(* ends the call before anything is logged or opened.                      *)
(***************************************************************************)
\* an instance of one of the four writer classes: __init__ stores the logger
Encoder(cls) == [t |-> "encoder", cls |-> cls, logger |-> "logger"]

Encoders == {Encoder(cls) : cls \in {"MarkdownWriter", "JsonWriter", "XMLWriter", "TOONWriter"}}

\* self is an instance of cls
IsInstance(cls) == self.t = "encoder" /\ self.cls = cls

\* log_tree: logger.debug of the project structure
LogTree(t) == [level |-> "debug", msg |-> "Project structure", tree |-> t]

\* the completion line: logger.info("Wrote ... output to ...")
Completion(w) == [level |-> "info", msg |-> "Wrote output", format |-> w]

\* a bug: write empties the list it is given
WriteFrame_ClearsDocuments ==
  /\ documents' = <<>>
  /\ UNCHANGED <<git_analyzer, commits_limit, self, value, rendered,
                 folder_tree, processed, args, repo, exit_code>>

\* write assigns neither to its arguments nor to self
WriteFrame ==
  UNCHANGED <<documents, git_analyzer, commits_limit, self, value, rendered,
              folder_tree, processed, args, repo, exit_code>>

\* the call raised in build_folder_structure: nothing logged, rendered or
\* written
Raise(w, made) ==
  /\ pc' = "raised"
  /\ writer' = w
  /\ write_calls' = write_calls + 1
  /\ output' = NoneV
  /\ calls' = made
  /\ dest' = dest
  /\ log' = log

\* the call returned: payload rendered, text written to output_path, the
\* tree and the completion line logged
Return(w, made, payload, text) ==
  /\ pc' = "done"
  /\ writer' = w
  /\ write_calls' = write_calls + 1
  /\ output' = payload
  /\ calls' = made
  /\ dest' = text
  /\ log' = log \o <<LogTree(build_folder_structure(documents)), Completion(w)>>

RECURSIVE JsonSerializable(_)
\* json.dump raises TypeError on a value that is not None, a bool, an int,
\* a str (as every key is), a list or a dict
JsonSerializable(x) ==
  IF x.t \in {"none", "bool", "int", "str"} THEN TRUE
  ELSE IF x.t = "list" THEN \A i \in 1..Len(x.v) : JsonSerializable(x.v[i])
  ELSE IF x.t = "dict" THEN \A i \in 1..Len(x.v) : JsonSerializable(x.v[i][2])
  ELSE FALSE

\* the file json.dump leaves when it raises: opened for writing, so created
\* or truncated, and holding the chunks of out before the value it rejects
Truncated(out) == [t |-> "truncated", of |-> out]

\* json.dump raised inside "with open(...)": the tree was logged and the
\* destination opened before, the completion line is not reached
RaiseInDump(w, made, out) ==
  /\ pc' = "raised"
  /\ writer' = w
  /\ write_calls' = write_calls + 1
  /\ output' = NoneV
  /\ calls' = made
  /\ dest' = Truncated(out)
  /\ log' = Append(log, LogTree(build_folder_structure(documents)))

\* MarkdownWriter.write
WriteMarkdown ==
  /\ pc = "ready"
  /\ IsInstance("MarkdownWriter")
  /\ LET made == GitCalls(git_analyzer, commits_limit)
         tree == build_folder_structure(documents)
     IN IF IsError(tree) THEN Raise("md", made)
        ELSE LET content == MarkdownContent(tree, documents, git_analyzer)
             IN Return("md", made, [t |-> "md", content |-> content],
                       StrV(Join(<<"\n">>, content)))
  /\ WriteFrame

\* JsonWriter.write; json.dump writes the output mapping as it is, into
\* the destination it is handed open
WriteJson ==
  /\ pc = "ready"
  /\ IsInstance("JsonWriter")
  /\ LET tree == build_folder_structure(documents)
     IN IF IsError(tree) THEN Raise("json", <<>>)
        ELSE LET structure == tree_to_list(tree, <<>>)
                 out == OutputDocument(structure, documents, git_analyzer,
                                       commits_limit)
                 made == GitCalls(git_analyzer, commits_limit)
             IN IF JsonSerializable(out)
                THEN Return("json", made, [t |-> "json", output |-> out], out)
                ELSE RaiseInDump("json", made, out)
  /\ WriteFrame

\* XMLWriter.write; the pretty-printed text is kept as the element tree
WriteXML ==
  /\ pc = "ready"
  /\ IsInstance("XMLWriter")
  /\ LET made == GitCalls(git_analyzer, commits_limit)
         tree == build_folder_structure(documents)
     IN IF IsError(tree) THEN Raise("xml", made)
        ELSE LET root == XmlRoot(tree, documents, git_analyzer)
             IN Return("xml", made, [t |-> "xml", root |-> root], root)
  /\ WriteFrame

\* TOONWriter.write
WriteTOON ==
  /\ pc = "ready"
  /\ IsInstance("TOONWriter")
  /\ LET tree == build_folder_structure(documents)
     IN IF IsError(tree) THEN Raise("toon", <<>>)
        ELSE LET structure == tree_to_list(tree, <<>>)
                 out == OutputDocument(structure, documents, git_analyzer,
                                       commits_limit)
                 toon_lines == _format_value(out, 0)
             IN Return("toon", GitCalls(git_analyzer, commits_limit),
                       [t |-> "toon", output |-> out, toon_lines |-> toon_lines],
                       StrV(Join(<<"\n">>, toon_lines)))
  /\ WriteFrame

Next == WriteMarkdown \/ WriteJson \/ WriteXML \/ WriteTOON

(***************************************************************************)
(* Spec: write on every list of up to MaxDocs documents whose paths have   *)
(* up to MaxDepth segments, without a git collaborator.                    *)
(***************************************************************************)
Names == {<<"a">>, <<"b">>}

\* the repo-relative paths: 1..MaxDepth names joined by "/"
Paths == {Join(<<"/">>, segs) : segs \in UNION {[1..k -> Names] : k \in 1..MaxDepth}}


\* the documents of Spec are python files
Documents == {Document(p, L_python, MetaOf(L_python)) : p \in Paths}

\* the state before any TOON function call
ToonIdle == value = NoneV /\ rendered = <<>>

\* no build pass of its own is under way
NoBuild == folder_tree = NoneV /\ processed = 0

\* tria.main is not running
NoMain == args = NoneV /\ repo = NoneV /\ exit_code = NoneV

\* the state before a call of write
Ready ==
  /\ pc = "ready"
  /\ writer = "none"
  /\ output = NoneV
  /\ calls = <<>>
  /\ dest = NoneV
  /\ log = <<>>
  /\ write_calls = 0
  /\ NoBuild
  /\ NoMain

Init ==
  /\ documents \in SeqsUpTo(Documents, MaxDocs)
  /\ git_analyzer = NoneV
  /\ commits_limit = 20
  /\ self \in Encoders
  /\ Ready
  /\ ToonIdle

Spec == Init /\ [][Next]_vars

(***************************************************************************)
(* GitSpec: write on one document of GitLanguages with every git           *)
(* collaborator whose lists have up to MaxReturned (commits: MaxCommits)   *)
(* items.                                                                  *)
(***************************************************************************)
GitAnalyzers ==
  {NoneV, GitAnalyzer(FALSE, CHOOSE s \in Summaries : TRUE, 1, 1, 1)}
  \cup {GitAnalyzer(TRUE, s, nb, nc, nk) :
          s \in Summaries, nb \in 0..MaxReturned, nc \in 0..MaxCommits,
          nk \in 0..MaxReturned}

GitLanguages == {L_python, L_dockerfile}

GitInit ==
  /\ documents \in {<<Document(<<"a", "/", "b">>, l, MetaOf(l))>> : l \in GitLanguages}
  /\ git_analyzer \in GitAnalyzers
  /\ commits_limit \in 0..MaxCommitsLimit
  /\ self \in Encoders
  /\ Ready
  /\ ToonIdle

GitSpec == GitInit /\ [][Next]_vars


(***************************************************************************)
(* The TOON functions applied to bounded inputs: every string over         *)
(* ToonChars up to MaxStrLen, every array of up to MaxArrLen elements of   *)
(* ArrayElems, and every mapping of one key to such a value.               *)
(***************************************************************************)
ToonChars == {"a", "5", ",", "\"", " ", "\n"}

ToonStrings ==
  SeqsUpTo(ToonChars, MaxStrLen)
  \cup {<<"t", "r", "u", "e">>, <<"[", "'", "a", "'", "]">>}

ToonScalars ==
  {NoneV, BoolV(TRUE), BoolV(FALSE), IntV(5)} \cup {StrV(s) : s \in ToonStrings}

ArrayElems ==
  {NoneV, BoolV(TRUE), IntV(5), StrV(<<"a">>), StrV(<<"a", ",">>),
   DictV(<<>>),
   DictV(<< <<K_path, StrV(<<"a">>)>> >>),
   DictV(<< <<K_lines, IntV(5)>> >>),
   DictV(<< <<K_path, StrV(<<"a">>)>>, <<K_lines, IntV(5)>> >>),
   DictV(<< <<K_lines, IntV(7)>>, <<K_path, StrV(<<"a", "\"">>)>> >>),
   DictV(<< <<K_path, ListV(<<StrV(<<"a">>)>>)>> >>),
   DictV(<< <<K_path, StrV(<<"[", "'", "a", "'", "]">>)>> >>),
   ListV(<<>>),
   ListV(<<IntV(5)>>),
   ListV(<<IntV(5), ListV(<<IntV(5)>>)>>)}

ToonArrays == {ListV(a) : a \in SeqsUpTo(ArrayElems, MaxArrLen)}

ToonMappings == {DictV(<< <<K_path, x>> >>) : x \in ToonScalars \cup ToonArrays}

\* the documents TOONWriter.write assembles for up to three of the files
\* a/a, a/b/a and b, without git
ExampleFiles ==
  {Document(p, L_other, MetaOf(L_other)) : p \in {<<"a", "/", "a">>, <<"a", "/", "b", "/", "a">>, <<"b">>}}

\* summaries of a repository without commits: the first commit date is
\* None in one and the empty string in the other
EmptySummaries ==
  {DictV(<< <<K_current_branch, StrV(<<"m", "a", "i", "n">>)>>,
            <<K_first_commit_date, d>> >>) : d \in {NoneV, StrV(<<>>)}}

\* and the documents it assembles for no file and a repository with such a
\* summary
CanonicalDocuments ==
  {OutputDocument(tree_to_list(build_folder_structure(docs), <<>>), docs, NoneV, 0) :
     docs \in SeqsUpTo(ExampleFiles, 3)}
  \cup {OutputDocument(<<>>, <<>>, GitAnalyzer(TRUE, s, 0, 0, 0), 0) :
          s \in EmptySummaries}


ToonInputs == ToonScalars \cup ToonArrays \cup ToonMappings \cup CanonicalDocuments

\* the state of a Spec run, left alone by the TOON function calls
Idle ==
  /\ documents = <<>>
  /\ git_analyzer = NoneV
  /\ commits_limit = 0
  /\ writer = "none"
  /\ output = NoneV
  /\ calls = <<>>
  /\ dest = NoneV
  /\ self = Encoder("TOONWriter")
  /\ log = <<>>
  /\ write_calls = 0
  /\ NoBuild
  /\ NoMain

ToonInit ==
  /\ Idle
  /\ value \in ToonInputs
  /\ rendered = <<>>
  /\ pc = "ready"

ToonFrame ==
  UNCHANGED <<documents, git_analyzer, commits_limit, writer, output, calls,
              dest, value, self, log, folder_tree, processed, args, repo,
              exit_code, write_calls>>

\* TOONWriter._escape_value(value) on a scalar
EscapeValue ==
  /\ pc = "ready"
  /\ ~IsDict(value) /\ ~IsList(value)
  /\ rendered' = _escape_value(value)
  /\ pc' = "escaped"
  /\ ToonFrame

\* TOONWriter._format_array(value) on a list
FormatArray ==
  /\ pc = "ready"
  /\ IsList(value)
  /\ rendered' = _format_array(value.v, 0)
  /\ pc' = "array"
  /\ ToonFrame

\* TOONWriter._format_value(value)
FormatValue ==
  /\ pc = "ready"
  /\ rendered' = _format_value(value, 0)
  /\ pc' = "formatted"
  /\ ToonFrame

ToonNext == EscapeValue \/ FormatArray \/ FormatValue

ToonSpec == ToonInit /\ [][ToonNext]_vars

(***************************************************************************)
(* C2, C3: the TOON array form and scalar escaping.                        *)
(***************************************************************************)
\* the form read back from the first line of an emitted array
EmittedForm(lines) ==
  LET first == lines[1]
      close == CHOOSE i \in 1..Len(first) : first[i] = "]"
  IN IF first = <<"[", "0", "]", ":", " ">> THEN "empty"
     ELSE IF first[close + 1] = "{" THEN "tabular"
     ELSE IF Len(first) = close + 1 THEN "block"
     ELSE "inline"

\* the form the stated priority order derives from the input array
StatedForm(arr) ==
  IF Len(arr) = 0 THEN "empty"
  ELSE IF /\ \A i \in 1..Len(arr) : arr[i].t = "dict"
          /\ \A i, j \in 1..Len(arr) : Range(Keys(arr[i])) = Range(Keys(arr[j]))
       THEN "tabular"
  ELSE IF \A i \in 1..Len(arr) : arr[i].t \notin {"dict", "list"} THEN "inline"
  ELSE "block"

\* C2: for every array, the form _format_array emits (empty, tabular, inline
\* or block) is the one the stated priority order derives from the input.
C2_ArrayFormMatchesPredicate ==
  pc = "array" => EmittedForm(rendered) = StatedForm(value.v)

\* C2 witness: an array of two mappings with different key sets was emitted
\* in block form
C2_Witness ==
  /\ pc = "array"
  /\ Len(value.v) = 2
  /\ IsDict(value.v[1]) /\ IsDict(value.v[2])
  /\ KeySet(value.v[1]) # KeySet(value.v[2])
  /\ EmittedForm(rendered) = "block"

\* C3: a string is returned unchanged iff it has no comma, newline or double
\* quote and equals its trimmed form; otherwise it is returned wrapped in
\* double quotes with every internal double quote doubled.
C3_EscapeQuotesIffSpecial ==
  (pc = "escaped" /\ value.t = "str") =>
    LET s == value.v
        plain == /\ \A i \in 1..Len(s) : s[i] \notin {",", "\n", "\""}
                 /\ (s = <<>> \/ (s[1] \notin Whitespace /\ s[Len(s)] \notin Whitespace))
    IN IF plain THEN rendered = s
       ELSE /\ rendered[1] = "\"" /\ rendered[Len(rendered)] = "\""
            /\ LET body == SubSeq(rendered, 2, Len(rendered) - 1)
               IN body = Concat([i \in 1..Len(s) |->
                                   IF s[i] = "\"" THEN <<"\"", "\"">> ELSE <<s[i]>>])

\* C3 witness: a string holding a comma and a double quote was escaped
C3_Witness ==
  /\ pc = "escaped"
  /\ value = StrV(<<",", "\"">>)
  /\ rendered = <<"\"", ",", "\"", "\"", "\"">>

(***************************************************************************)
(* C9: TOON text as an injective encoding.                                 *)
(***************************************************************************)
\* C9: _format_value is injective on canonical documents: no two different
\* documents render to the same TOON text.
C9_FormatValueInjective ==
  (pc = "formatted" /\ value \in CanonicalDocuments) =>
    \A other \in CanonicalDocuments :
      other # value => _format_value(other, 0) # rendered

(***************************************************************************)
(* C1, C4: the structure list of the tree.                                 *)
(***************************************************************************)
RECURSIVE FilePaths(_)
\* the paths of the entries of type "file" in a structure list, at any depth
FilePaths(nodes) ==
  UNION {IF Get(nodes[i], K_type) = StrV(<<"f", "i", "l", "e">>)
         THEN {Get(nodes[i], K_path).v}
         ELSE IF HasKey(nodes[i], K_files) THEN FilePaths(Get(nodes[i], K_files).v)
         ELSE {} : i \in 1..Len(nodes)}

InputPaths == {documents[i].path : i \in 1..Len(documents)}

\* s is a proper prefix of t
IsProperPrefix(s, t) == Len(s) < Len(t) /\ SubSeq(t, 1, Len(s)) = s

\* no document's path is also a directory on the way to another document
NoFileDirCollision ==
  \A i, j \in 1..Len(documents) :
    ~IsProperPrefix(Parts(documents[i].path), Parts(documents[j].path))

\* the structure list of a finished JSON write
Structure == Get(output.output, K_structure).v

\* C1 as stated: for every non-empty list of file paths, the file entries of
\* tree_to_list(build_folder_structure(docs)) are exactly the input paths.
C1_RoundTripAnyList ==
  (pc = "done" /\ writer = "json" /\ documents # <<>>) =>
    FilePaths(Structure) = InputPaths

\* C1 amended: the round trip holds, and write returns, for every non-empty
\* list of normalised repo-relative paths in which no path is also a
\* directory prefix of another path.
C1_RoundTripWithoutCollision ==
  (pc # "ready" /\ writer = "json" /\ documents # <<>> /\ NoFileDirCollision) =>
    pc = "done" /\ FilePaths(Structure) = InputPaths

\* C1 witness: two files of one directory and a top-level file went through
C1_Witness ==
  /\ pc = "done" /\ writer = "json"
  /\ Len(documents) = 3
  /\ NoFileDirCollision
  /\ Cardinality(InputPaths) = 3
  /\ FilePaths(Structure) = InputPaths
  /\ \E i \in 1..Len(Structure) : HasKey(Structure[i], K_files)

RECURSIVE NodesWellFormed(_, _)
\* every node has path and type first; a directory then has its sub-nodes
\* under the key k, a file has nothing else
NodesWellFormed(nodes, k) ==
  \A i \in 1..Len(nodes) :
    LET node == nodes[i] IN
    /\ IsDict(node)
    /\ Len(node.v) >= 2
    /\ node.v[1][1] = K_path /\ node.v[1][2].t = "str"
    /\ node.v[2][1] = K_type
    /\ IF node.v[2][2] = StrV(<<"d", "i", "r", "e", "c", "t", "o", "r", "y">>)
       THEN /\ Keys(node) = <<K_path, K_type, k>>
            /\ IsList(node.v[3][2])
            /\ NodesWellFormed(node.v[3][2].v, k)
       ELSE /\ node.v[2][2] = StrV(<<"f", "i", "l", "e">>)
            /\ Keys(node) = <<K_path, K_type>>

K_children == <<"c", "h", "i", "l", "d", "r", "e", "n">>

\* the one document of the example: a/b
ExampleDocs == Len(documents) = 1 /\ documents[1].path = <<"a", "/", "b">>

\* C4 as stated: a directory node carries its sub-nodes under "children";
\* for the input [a/b] the list is [{path: a, type: directory,
\* children: [{path: a/b, type: file}]}].
C4_NodesUseChildren ==
  (pc = "done" /\ writer = "json") =>
    /\ NodesWellFormed(Structure, K_children)
    /\ ExampleDocs =>
         Structure = <<DictV(<< <<K_path, StrV(<<"a">>)>>,
                                <<K_type, StrV(<<"d", "i", "r", "e", "c", "t", "o", "r", "y">>)>>,
                                <<K_children,
                                  ListV(<<DictV(<< <<K_path, StrV(<<"a", "/", "b">>)>>,
                                                   <<K_type, StrV(<<"f", "i", "l", "e">>)>> >>)>>)>> >>)>>

\* C4 amended: every node is a mapping with keys path and type; a directory
\* node carries its sub-nodes under the key "files" and a file node has no
\* such key; for the input [a/b] the list is [{path: a, type: directory,
\* files: [{path: a/b, type: file}]}].
C4_NodesUseFiles ==
  (pc = "done" /\ writer = "json") =>
    /\ NodesWellFormed(Structure, K_files)
    /\ ExampleDocs =>
         Structure = <<DictV(<< <<K_path, StrV(<<"a">>)>>,
                                <<K_type, StrV(<<"d", "i", "r", "e", "c", "t", "o", "r", "y">>)>>,
                                <<K_files,
                                  ListV(<<DictV(<< <<K_path, StrV(<<"a", "/", "b">>)>>,
                                                   <<K_type, StrV(<<"f", "i", "l", "e">>)>> >>)>>)>> >>)>>

\* C4 witness: the example input a/b was written
C4_Witness ==
  /\ pc = "done" /\ writer = "json"
  /\ ExampleDocs
  /\ Len(Structure) = 1
  /\ HasKey(Structure[1], K_files)

(***************************************************************************)
(* C5, C6, C7: the git section.                                            *)
(***************************************************************************)
\* a git collaborator is supplied and reports a repository
GitRepoSupplied == git_analyzer.t = "git" /\ git_analyzer.is_git_repo = TRUE

\* the children of the root element with the given tag
RootChildren(tag) ==
  SelectSeq(output.root.children, LAMBDA e : e.tag = tag)

\* the children with the given tag of the <git_history> element
GitChildren(tag) ==
  SelectSeq(RootChildren("git_history")[1].children, LAMBDA e : e.tag = tag)

\* the git_history mapping of the JSON or TOON document
GitHistory == Get(output.output, K_git_history)

\* a line of the TOON text, after its indentation
ToonHasLine(indent, text) ==
  \E i \in 1..Len(output.toon_lines) : output.toon_lines[i] = Spaces(2 * indent) \o text

\* what C5 says of Markdown, JSON and TOON when the branches list is empty
EmptyBranchesExceptXml ==
  /\ writer = "md" => \A i \in 1..Len(output.content) : output.content[i] # MD_Branches
  /\ writer \in {"json", "toon"} =>
       /\ HasKey(GitHistory, K_branches)
       /\ Get(GitHistory, K_branches) = ListV(<<>>)
  /\ writer = "toon" => ToonHasLine(1, K_branches \o <<"[", "0", "]", ":", " ">>)

\* the case of C5: a finished write with a repository without branches
EmptyBranchesCase ==
  pc = "done" /\ GitRepoSupplied /\ git_analyzer.branches = <<>>

\* C5 as stated: with is_git_repo and no branches, Markdown has no
\* "### Branches" heading and JSON, XML and TOON each hold an empty branches
\* array or element.
C5_EmptyBranchesKept ==
  EmptyBranchesCase =>
    /\ EmptyBranchesExceptXml
    /\ writer = "xml" =>
         /\ Len(GitChildren("branches")) = 1
         /\ GitChildren("branches")[1].children = <<>>

\* C5 amended: with is_git_repo and no branches, Markdown has no
\* "### Branches" heading, JSON and TOON hold an empty branches array, and
\* the XML output has no <branches> element at all.
C5_EmptyBranchesXmlOmits ==
  EmptyBranchesCase =>
    /\ EmptyBranchesExceptXml
    /\ writer = "xml" => GitChildren("branches") = <<>>

\* C5 witness: an XML write with a repository without branches but with
\* contributors
C5_Witness ==
  /\ EmptyBranchesCase
  /\ writer = "xml"
  /\ Len(GitChildren("summary")) = 1
  /\ Len(GitChildren("contributors")) = 1

\* the output of a finished write holds a git section
HasGitSection ==
  IF writer = "md" THEN \E i \in 1..Len(output.content) : output.content[i] = MD_GitHistory
  ELSE IF writer = "json" THEN HasKey(output.output, K_git_history)
  ELSE IF writer = "xml" THEN RootChildren("git_history") # <<>>
  ELSE HasKey(output.output, K_git_history) /\ ToonHasLine(0, K_git_history \o <<":">>)

\* C6: for every encoder the output holds a git section iff a collaborator
\* is supplied and its is_git_repo is true; otherwise no getter is called.
C6_GitSectionIffRepo ==
  pc = "done" =>
    /\ HasGitSection <=> GitRepoSupplied
    /\ ~GitRepoSupplied => calls = <<>>

\* C6 witness: a collaborator that is not a repository was passed to write,
\* which finished without a git section
C6_Witness ==
  /\ pc = "done"
  /\ git_analyzer.t = "git" /\ ~git_analyzer.is_git_repo
  /\ ~HasGitSection
  /\ calls = <<>>

\* the list under key k of the git section holds the first n items returned
FirstItems(k, returned, n, field, name(_)) ==
  LET held == Get(GitHistory, k).v
  IN /\ Len(held) = (IF Len(returned) < n THEN Len(returned) ELSE n)
     /\ \A i \in 1..Len(held) : Get(held[i], field) = StrV(name(returned[i]))

\* the case of C7: a finished JSON or TOON write with a repository
GitDocumentCase == pc = "done" /\ GitRepoSupplied /\ writer \in {"json", "toon"}

\* branches and contributors are cut to their first 10 by the writer
BranchesAndContributorsCut ==
  /\ FirstItems(K_branches, git_analyzer.branches, 10, K_name, LAMBDA b : b.name)
  /\ FirstItems(K_contributors, git_analyzer.contributors, 10, K_name,
                LAMBDA c : c.name)

\* C7 as stated: whatever the collaborator returns, the git section holds at
\* most the first 10 branches, the first 10 contributors and at most
\* commits_limit commits.
C7_AllListsCapped ==
  GitDocumentCase =>
    /\ BranchesAndContributorsCut
    /\ Len(Get(GitHistory, K_recent_commits).v) <= commits_limit

\* C7 amended: the writer cuts branches and contributors to their first 10;
\* it passes commits_limit to get_commits and holds every commit that call
\* returns, without cutting the list itself.
C7_CommitsLimitDelegated ==
  GitDocumentCase =>
    /\ BranchesAndContributorsCut
    /\ [fn |-> "get_commits", limit |-> commits_limit] \in Range(calls)
    /\ FirstItems(K_recent_commits, git_analyzer.commits, Len(git_analyzer.commits),
                  K_hash, LAMBDA c : c.hash)

\* C7 witness: the collaborator returned more than 10 branches and more
\* than 10 contributors, and 10 of each are held
C7_Witness ==
  /\ GitDocumentCase
  /\ Len(git_analyzer.branches) > 10
  /\ Len(git_analyzer.contributors) > 10
  /\ Len(Get(GitHistory, K_branches).v) = 10
  /\ Len(Get(GitHistory, K_contributors).v) = 10

(***************************************************************************)
(* C8: indentation of the TOON text.                                       *)
(***************************************************************************)
RECURSIVE LeadingSpaces(_)
LeadingSpaces(line) ==
  IF line # <<>> /\ Head(line) = " " THEN 1 + LeadingSpaces(Tail(line)) ELSE 0

RECURSIVE UniformIndents(_, _)
\* the indentation of each line of x rendered at nesting level d when every
\* level is two spaces: a key or block element at level d has 2*d spaces,
\* the body lines of its array have 2*(d+1)
UniformIndents(x, d) ==
  LET body(arr) ==
        IF StatedForm(arr) = "tabular" THEN [i \in 1..Len(arr) |-> 2 * (d + 1)]
        ELSE IF StatedForm(arr) = "block"
        THEN Concat([i \in 1..Len(arr) |-> UniformIndents(arr[i], d + 1)])
        ELSE <<>>
  IN IF x.t = "dict"
     THEN Concat([i \in 1..Len(x.v) |->
            IF x.v[i][2].t = "list" THEN <<2 * d>> \o body(x.v[i][2].v)
            ELSE IF x.v[i][2].t = "dict" THEN <<2 * d>> \o UniformIndents(x.v[i][2], d + 1)
            ELSE <<2 * d>>])
     ELSE IF x.t = "list" THEN <<2 * d>> \o body(x.v)
     ELSE <<2 * d>>

\* C8: in the TOON text of any document, a mapping key at nesting level d
\* starts with exactly 2*d spaces and each body line of an array that is the
\* value of a key at level d starts with exactly 2*(d+1) spaces, at every
\* depth.
C8_TwoSpacesPerLevel ==
  (pc = "formatted" /\ value \in CanonicalDocuments) =>
    [i \in 1..Len(rendered) |-> LeadingSpaces(rendered[i])] = UniformIndents(value, 0)

(***************************************************************************)
(* C10: the XML structure subtree against the structure list.              *)
(***************************************************************************)
RECURSIVE XmlShape(_)
\* tag, path attribute and sub-elements of each element, in order
XmlShape(elems) ==
  [i \in 1..Len(elems) |->
     <<elems[i].tag, elems[i].attrib, XmlShape(elems[i].children)>>]

RECURSIVE ListShape(_)
\* type, path and sub-nodes of each node of a structure list, in order
ListShape(nodes) ==
  [i \in 1..Len(nodes) |->
     <<IF Get(nodes[i], K_type) = StrV(<<"f", "i", "l", "e">>) THEN "file" ELSE "directory",
       << <<"path", Get(nodes[i], K_path).v>> >>,
       IF HasKey(nodes[i], K_files) THEN ListShape(Get(nodes[i], K_files).v) ELSE <<>> >>]

RECURSIVE PathsNonEmpty(_)
PathsNonEmpty(elems) ==
  \A i \in 1..Len(elems) :
    /\ elems[i].tag \in {"file", "directory"}
    /\ Len(elems[i].attrib) = 1
    /\ elems[i].attrib[1][1] = "path"
    /\ elems[i].attrib[1][2] # <<>>
    /\ PathsNonEmpty(elems[i].children)

\* the children of the <structure> element of a finished XML write
XmlStructure == RootChildren("structure")[1].children

\* C10: tree_to_xml emits, in the order and nesting of tree_to_list, one
\* <file> per file node and one <directory> per directory node, each with a
\* non-empty path attribute equal to the path of the list node.
C10_XmlStructureIsomorphic ==
  (pc = "done" /\ writer = "xml") =>
    /\ XmlShape(XmlStructure)
         = ListShape(tree_to_list(build_folder_structure(documents), <<>>))
    /\ PathsNonEmpty(XmlStructure)

\* C10 witness: an XML write of a directory with two files and a top-level
\* file
C10_Witness ==
  /\ pc = "done" /\ writer = "xml"
  /\ Len(XmlStructure) = 2
  /\ XmlStructure[1].tag = "directory"
  /\ Len(XmlStructure[1].children) = 2
  /\ XmlStructure[1].children[2].attrib[1][2] = <<"a", "/", "b">>
  /\ XmlStructure[2].tag = "file"


(***************************************************************************)
(* C11: the order of siblings.                                             *)
(***************************************************************************)
RECURSIVE FirstEncounters(_, _)
\* the names directly under the directory dir (its parts), in the order in
\* which the paths of docs first show them
FirstEncounters(docs, dir) ==
  IF docs = <<>> THEN <<>>
  ELSE LET before == FirstEncounters(SubSeq(docs, 1, Len(docs) - 1), dir)
           parts == Parts(docs[Len(docs)].path)
       IN IF /\ Len(parts) > Len(dir)
             /\ SubSeq(parts, 1, Len(dir)) = dir
             /\ parts[Len(dir) + 1] \notin Range(before)
          THEN Append(before, parts[Len(dir) + 1])
          ELSE before

RECURSIVE TreeInEncounterOrder(_, _)
\* the keys of every directory of the tree are its names in encounter order
TreeInEncounterOrder(tree, dir) ==
  /\ Keys(tree) = FirstEncounters(documents, dir)
  /\ \A i \in 1..Len(tree.v) :
       IsDict(tree.v[i][2]) =>
         TreeInEncounterOrder(tree.v[i][2], Append(dir, tree.v[i][1]))

RECURSIVE ListInEncounterOrder(_, _)
\* the nodes of every level of the structure list are the names of their
\* directory in encounter order, each once
ListInEncounterOrder(nodes, dir) ==
  /\ [i \in 1..Len(nodes) |-> Get(nodes[i], K_path).v]
       = [i \in 1..Len(FirstEncounters(documents, dir)) |->
            Join(<<"/">>, Append(dir, FirstEncounters(documents, dir)[i]))]
  /\ \A i \in 1..Len(nodes) :
       HasKey(nodes[i], K_files) =>
         ListInEncounterOrder(Get(nodes[i], K_files).v,
                              Parts(Get(nodes[i], K_path).v))

\* C11: within every directory of the tree of build_folder_structure and at
\* every level of the list of tree_to_list, the siblings stand in the order
\* in which the documents first showed their names, a directory shared by
\* several files being one node at the place of its first encounter.
C11_SiblingsInEncounterOrder ==
  (pc = "done" /\ writer = "json") =>
    /\ TreeInEncounterOrder(build_folder_structure(documents), <<>>)
    /\ ListInEncounterOrder(Structure, <<>>)

\* C11 witness: b came before the directory a, and a/b before a/a, with the
\* directory a shared by two files that another file separates
C11_Witness ==
  /\ pc = "done" /\ writer = "json"
  /\ [i \in 1..Len(documents) |-> documents[i].path]
       = << <<"a", "/", "b">>, <<"b">>, <<"a", "/", "a">> >>
  /\ [i \in 1..Len(Structure) |-> Get(Structure[i], K_path).v] = << <<"a">>, <<"b">> >>
  /\ [i \in 1..2 |-> Get(Get(Structure[1], K_files).v[i], K_path).v]
       = << <<"a", "/", "b">>, <<"a", "/", "a">> >>


(***************************************************************************)
(* BuildSpec: one pass of build_folder_structure, an iteration of its loop *)
(* over the documents at a time, and format_tree_md on the tree it         *)
(* returns, for up to MaxTreeDocs paths of up to MaxTreeDepth segments.    *)
(***************************************************************************)
\* the locals of a build pass are all that moves
BuildFrame ==
  UNCHANGED <<documents, git_analyzer, commits_limit, writer, output, calls,
              dest, value, rendered, self, log, args, repo, exit_code,
              write_calls>>

\* "for doc in documents": the next document's parts are walked and its
\* file marked; a TypeError ends the pass
BuildStep ==
  /\ pc = "building"
  /\ processed < Len(documents)
  /\ LET built == AddPath(folder_tree, Parts(documents[processed + 1].path))
     IN IF IsError(built)
        THEN pc' = "raised" /\ UNCHANGED <<folder_tree, processed>>
        ELSE pc' = pc /\ folder_tree' = built /\ processed' = processed + 1
  /\ BuildFrame

\* "return tree", the loop being over
BuildReturn ==
  /\ pc = "building"
  /\ processed = Len(documents)
  /\ pc' = "built"
  /\ UNCHANGED <<folder_tree, processed>>
  /\ BuildFrame

\* format_tree_md(tree), as MarkdownWriter.write calls it on the tree built
FormatTreeMd ==
  /\ pc = "built"
  /\ rendered' = format_tree_md(folder_tree, <<>>, TRUE)
  /\ pc' = "drawn"
  /\ UNCHANGED <<documents, git_analyzer, commits_limit, writer, output, calls,
                 dest, value, self, log, folder_tree, processed, args, repo,
                 exit_code, write_calls>>

BuildNext == BuildStep \/ BuildReturn \/ FormatTreeMd

TreePaths ==
  {Join(<<"/">>, segs) : segs \in UNION {[1..k -> Names] : k \in 1..MaxTreeDepth}}

TreeDocuments == {Document(p, L_python, MetaOf(L_python)) : p \in TreePaths}

\* "tree = {}" on any list of up to MaxTreeDocs documents
BuildInit ==
  /\ documents \in SeqsUpTo(TreeDocuments, MaxTreeDocs)
  /\ git_analyzer = NoneV
  /\ commits_limit = 20
  /\ pc = "building"
  /\ folder_tree = DictV(<<>>)
  /\ processed = 0
  /\ writer = "none"
  /\ output = NoneV
  /\ calls = <<>>
  /\ dest = NoneV
  /\ self = NoneV
  /\ log = <<>>
  /\ write_calls = 0
  /\ NoMain
  /\ ToonIdle

BuildSpec == BuildInit /\ [][BuildNext]_vars

(***************************************************************************)
(* C12: nodes of the tree during a build pass.                             *)
(***************************************************************************)
RECURSIVE NodePaths(_, _)
\* the paths of the nodes of a tree, files and directories, below dir
NodePaths(t, dir) ==
  UNION {{Append(dir, t.v[i][1])}
         \cup (IF IsDict(t.v[i][2])
               THEN NodePaths(t.v[i][2], Append(dir, t.v[i][1]))
               ELSE {}) : i \in 1..Len(t.v)}

\* an iteration of the loop removes no node
KeepsNodes == NodePaths(folder_tree, <<>>) \subseteq NodePaths(folder_tree', <<>>)

\* C12 as stated: over any sequence of document paths, every node of the
\* tree after one document is still in the tree after the next, so after
\* every later one.
C12_NoNodeRemoved == [][pc = "building" => KeepsNodes]_vars

\* C12 amended: the same over every sequence of paths in which no path is
\* also a directory prefix of another path, where the pass also returns.
C12_NoNodeRemovedWithoutCollision ==
  [][(pc = "building" /\ NoFileDirCollision) => (KeepsNodes /\ pc' # "raised")]_vars

\* C12 witness: a pass over two documents without collision returned a tree
\* in which the directory made for the first document holds both files
C12_Witness ==
  /\ pc = "built" /\ processed = 2
  /\ NoFileDirCollision
  /\ Cardinality(NodePaths(folder_tree, <<>>)) = 3
  /\ \E i \in 1..Len(folder_tree.v) :
       IsDict(folder_tree.v[i][2]) /\ Len(folder_tree.v[i][2].v) = 2


(***************************************************************************)
(* C13: the lines of format_tree_md.                                       *)
(***************************************************************************)
RECURSIVE DepthFirst(_, _)
\* the nodes of a tree below the node at, each as the sequence of sibling
\* positions leading to it, a directory before its descendants and the
\* siblings in insertion order; a file has no descendants
DepthFirst(t, at) ==
  Concat([i \in 1..Len(t.v) |->
            <<Append(at, i)>>
            \o (IF IsDict(t.v[i][2]) THEN DepthFirst(t.v[i][2], Append(at, i))
                ELSE <<>>)])

RECURSIVE Directory(_, _)
\* the directory holding the node at position p
Directory(t, p) == IF Len(p) = 1 THEN t ELSE Directory(t.v[p[1]][2], Tail(p))

NodeName(t, p) == Directory(t, p).v[p[Len(p)]][1]

IsLastSibling(t, p) == p[Len(p)] = Len(Directory(t, p).v)

\* the line of the node at p: four spaces for every ancestor that is a last
\* sibling and a bar and three spaces for every other, the connector of the
\* node, its name
StatedLine(t, p) ==
  Concat([k \in 1..(Len(p) - 1) |->
            IF IsLastSibling(t, SubSeq(p, 1, k)) THEN <<" ", " ", " ", " ">>
            ELSE <<Bar, " ", " ", " ">>])
  \o (IF IsLastSibling(t, p) THEN <<Corner, Dash, Dash, " ">>
      ELSE <<Tee, Dash, Dash, " ">>)
  \o NodeName(t, p)

\* C13: format_tree_md emits one line per node of the tree in depth-first
\* insertion order, the line of a node being its ancestors' continuation
\* prefix, the connector of a last or other sibling and its name; files have
\* no descendant lines.
C13_OneLinePerNode ==
  pc = "drawn" =>
    rendered = [i \in 1..Len(DepthFirst(folder_tree, <<>>)) |->
                  StatedLine(folder_tree, DepthFirst(folder_tree, <<>>)[i])]

\* C13 witness: the tree of a/b/a and b was drawn: the directory a is not a
\* last sibling, its directory b is one, and so are the files
C13_Witness ==
  /\ pc = "drawn"
  /\ [i \in 1..Len(documents) |-> documents[i].path]
       = << <<"a", "/", "b", "/", "a">>, <<"b">> >>
  /\ rendered = << <<Tee, Dash, Dash, " ", "a">>,
                   <<Bar, " ", " ", " ", Corner, Dash, Dash, " ", "b">>,
                   <<Bar, " ", " ", " ", " ", " ", " ", " ", Corner, Dash, Dash, " ", "a">>,
                   <<Corner, Dash, Dash, " ", "b">> >>


(***************************************************************************)
(* SessionSpec: up to MaxCalls write calls on one encoder instance, each   *)
(* on a list of up to MaxSessionDocs documents, to a destination that may  *)
(* exist before.  Among the documents is one whose meta holds a value json *)
(* cannot serialize, and two whose paths collide.                          *)
(***************************************************************************)
SessionDocuments ==
  {Document(<<"a">>, L_python, MetaOf(L_python)),
   Document(<<"a", "/", "b">>, L_dockerfile, MetaOf(L_dockerfile)),
   Document(<<"b">>, L_python,
            DictV(<< <<K_classes, SetV>>, <<K_functions, ListV(<<>>)>> >>))}

\* a file left at output_path by an earlier run
OldFile == StrV(<<"o", "l", "d">>)

\* the caller calls write again, on the instance it has, with other documents
CallAgain ==
  /\ pc \in {"done", "raised"}
  /\ write_calls < MaxCalls
  /\ pc' = "ready"
  /\ documents' \in SeqsUpTo(SessionDocuments, MaxSessionDocs)
  /\ UNCHANGED <<git_analyzer, commits_limit, writer, output, calls, dest,
                 value, rendered, self, log, folder_tree, processed, args,
                 repo, exit_code, write_calls>>

SessionNext == Next \/ CallAgain

SessionInit ==
  /\ documents \in SeqsUpTo(SessionDocuments, MaxSessionDocs)
  /\ git_analyzer = NoneV
  /\ commits_limit = 20
  /\ self \in Encoders
  /\ pc = "ready"
  /\ writer = "none"
  /\ output = NoneV
  /\ calls = <<>>
  /\ dest \in {NoneV, OldFile}
  /\ log = <<>>
  /\ write_calls = 0
  /\ NoBuild
  /\ NoMain
  /\ ToonIdle

SessionSpec == SessionInit /\ [][SessionNext]_vars

(***************************************************************************)
(* C14: write changes neither its inputs nor the encoder.                  *)
(***************************************************************************)
\* a step that is a call of write
WriteCall == pc = "ready" /\ pc' \in {"done", "raised"}

\* what an instance made for this call alone renders for the documents
FreshRender ==
  LET built == build_folder_structure(documents)
      out == OutputDocument(tree_to_list(built, <<>>), documents, git_analyzer,
                            commits_limit)
  IN IF self.cls = "MarkdownWriter"
     THEN [t |-> "md", content |-> MarkdownContent(built, documents, git_analyzer)]
     ELSE IF self.cls = "JsonWriter" THEN [t |-> "json", output |-> out]
     ELSE IF self.cls = "XMLWriter"
     THEN [t |-> "xml", root |-> XmlRoot(built, documents, git_analyzer)]
     ELSE [t |-> "toon", output |-> out, toon_lines |-> _format_value(out, 0)]

Completions(records) == SelectSeq(records, LAMBDA r : r.msg = "Wrote output")

\* C15: in every encoder's write the text is rendered before the
\* destination is opened: a write call that raises leaves the destination
\* as it was, neither created nor truncated, and logs no completion line.
C15_FailureLeavesDestination ==
  [][(WriteCall /\ pc' = "raised") =>
       (dest' = dest /\ Completions(log') = Completions(log))]_vars


(***************************************************************************)
(* MainSpec: one run of tria.main (src/tria.py), a step at a time, on      *)
(* every command line and repository of MainArgs and MainRepos.  The       *)
(* reader, the chunker and the GitAnalyzer are collaborators: the reader   *)
(* returns repo.files and the analyzer reports repo.is_git_repo.           *)
(***************************************************************************)
\* the parsed command line: --format, --git-history, --dry-run, --git-commits
MainArgs ==
  [format : {"toon", "md", "json", "xml"}, git_history : BOOLEAN,
   dry_run : BOOLEAN, git_commits : 0..MaxCommitsLimit]

\* what the reader returns: nothing, one file, two files, two colliding paths
MainFiles ==
  {<<>>,
   <<Document(<<"a">>, L_python, MetaOf(L_python))>>,
   <<Document(<<"a", "/", "b">>, L_dockerfile, MetaOf(L_dockerfile)),
     Document(<<"b">>, L_python, MetaOf(L_python))>>,
   <<Document(<<"a">>, L_python, MetaOf(L_python)),
     Document(<<"a", "/", "b">>, L_python, MetaOf(L_python))>>}

\* the path given: absent, or present with or without a git repository
MainRepos ==
  {[exists |-> FALSE, is_git_repo |-> FALSE, files |-> <<>>]}
  \cup [exists : {TRUE}, is_git_repo : BOOLEAN, files : MainFiles]

\* logger.error / warning / info of main
MainLog(level, msg) == [level |-> level, msg |-> msg]

\* what a step of main before the write leaves alone
MainFrame ==
  UNCHANGED <<commits_limit, writer, output, calls, dest, value, rendered,
              folder_tree, processed, args, repo, write_calls>>

\* "if not repo_path.exists(): ... return 1", else the two info lines
MainValidate ==
  /\ pc = "main"
  /\ IF ~repo.exists
     THEN /\ log' = Append(log, MainLog("error", "Path does not exist"))
          /\ exit_code' = IntV(1)
          /\ pc' = "exit"
     ELSE /\ log' = log \o <<MainLog("info", "Processing repository"),
                             MainLog("info", "Output format")>>
          /\ exit_code' = exit_code
          /\ pc' = "validated"
  /\ UNCHANGED <<documents, git_analyzer, self>>
  /\ MainFrame

\* a bug: the analyzer of a directory that is no repository is kept
MainGitHistory_KeepsNonRepo ==
  /\ pc = "validated"
  /\ IF args.git_history
     THEN /\ git_analyzer' = GitAnalyzer(repo.is_git_repo, CHOOSE s \in Summaries : TRUE, 1, 1, 1)
          /\ log' = Append(log, MainLog("info", "Git repository detected"))
     ELSE /\ git_analyzer' = NoneV
          /\ log' = Append(log, MainLog("info", "Git history not requested"))
  /\ pc' = "analyzed"
  /\ UNCHANGED <<documents, self, exit_code>>
  /\ MainFrame

\* the analyzer is made only for --git-history and dropped again when the
\* path is not a git repository
MainGitHistory ==
  /\ pc = "validated"
  /\ IF args.git_history
     THEN IF ~repo.is_git_repo
          THEN /\ git_analyzer' = NoneV
               /\ log' = Append(log, MainLog("warning", "Not a git repository"))
          ELSE /\ git_analyzer' = GitAnalyzer(TRUE, CHOOSE s \in Summaries : TRUE, 1, 1, 1)
               /\ log' = Append(log, MainLog("info", "Git repository detected"))
     ELSE /\ git_analyzer' = NoneV
          /\ log' = Append(log, MainLog("info", "Git history not requested"))
  /\ pc' = "analyzed"
  /\ UNCHANGED <<documents, self, exit_code>>
  /\ MainFrame

\* reader.read_files: "if not documents: ... return 1", else the chunks are
\* counted and logged
MainRead ==
  /\ pc = "analyzed"
  /\ documents' = repo.files
  /\ IF repo.files = <<>>
     THEN /\ log' = Append(log, MainLog("warning", "No files found to process"))
          /\ exit_code' = IntV(1)
          /\ pc' = "exit"
     ELSE /\ log' = Append(log, MainLog("info", "Created chunks"))
          /\ exit_code' = exit_code
          /\ pc' = "read"
  /\ UNCHANGED <<git_analyzer, self>>
  /\ MainFrame

\* "else: logger.info('Dry run ...')" and "return 0"
MainDryRun ==
  /\ pc = "read"
  /\ args.dry_run
  /\ log' = Append(log, MainLog("info", "Dry run - no output written"))
  /\ exit_code' = IntV(0)
  /\ pc' = "exit"
  /\ UNCHANGED <<documents, git_analyzer, self>>
  /\ MainFrame

\* "match args.format": the class of the one writer made
WriterClass(format) ==
  IF format = "xml" THEN "XMLWriter"
  ELSE IF format = "json" THEN "JsonWriter"
  ELSE IF format = "md" THEN "MarkdownWriter"
  ELSE "TOONWriter"

\* "if not args.dry_run: match args.format: ... writer = ...Writer(logger)";
\* its write is called next
MainSelect ==
  /\ pc = "read"
  /\ ~args.dry_run
  /\ self' = Encoder(WriterClass(args.format))
  /\ pc' = "ready"
  /\ UNCHANGED <<documents, git_analyzer, log, exit_code>>
  /\ MainFrame

\* write returned: the last info line and "return 0"
MainReturn ==
  /\ pc = "done"
  /\ log' = Append(log, MainLog("info", "Output written"))
  /\ exit_code' = IntV(0)
  /\ pc' = "exit"
  /\ UNCHANGED <<documents, git_analyzer, self>>
  /\ MainFrame

\* write raised: main has no handler, the error leaves it
MainPropagate ==
  /\ pc = "raised"
  /\ exit_code' = TypeError
  /\ pc' = "exit"
  /\ UNCHANGED <<documents, git_analyzer, self, log>>
  /\ MainFrame

MainNext ==
  \/ MainValidate
  \/ MainGitHistory
  \/ MainRead
  \/ MainDryRun
  \/ MainSelect
  \/ WriteMarkdown
  \/ WriteJson
  \/ WriteXML
  \/ WriteTOON
  \/ MainReturn
  \/ MainPropagate

MainInit ==
  /\ args \in MainArgs
  /\ repo \in MainRepos
  /\ pc = "main"
  /\ documents = <<>>
  /\ git_analyzer = NoneV
  /\ commits_limit = args.git_commits
  /\ self = NoneV
  /\ exit_code = NoneV
  /\ writer = "none"
  /\ output = NoneV
  /\ calls = <<>>
  /\ dest = NoneV
  /\ log = <<>>
  /\ write_calls = 0
  /\ NoBuild
  /\ ToonIdle

MainSpec == MainInit /\ [][MainNext]_vars

(***************************************************************************)
(* C16: what tria.main selects, calls and returns.                         *)
(***************************************************************************)
\* the run calls write
MustWrite == repo.exists /\ repo.files # <<>> /\ ~args.dry_run

\* C16: a run selects at most one encoder and calls its write at most once;
\* write is called iff the path exists, the reader returned a document and
\* --dry-run is not set; main returns 1 without a writer when the path does
\* not exist or no document is found, and 0 without writing in the dry-run
\* case; and write gets a git collaborator only when --git-history was
\* asked for and the collaborator reports a repository.
C16_MainWritesOnce ==
  /\ [][self # NoneV => self' = self]_vars
  /\ [](write_calls <= 1)
  /\ [](write_calls = 1 => (self = Encoder(WriterClass(args.format)) /\ MustWrite))
  /\ [](pc = "exit" => (write_calls = 1 <=> MustWrite))
  /\ []((pc = "exit" /\ (~repo.exists \/ repo.files = <<>>)) =>
          (exit_code = IntV(1) /\ self = NoneV /\ write_calls = 0))
  /\ []((pc = "exit" /\ repo.exists /\ repo.files # <<>> /\ args.dry_run) =>
          (exit_code = IntV(0) /\ self = NoneV /\ write_calls = 0 /\ dest = NoneV))
  /\ []((pc \in {"ready", "done", "raised"} /\ git_analyzer # NoneV) =>
          (args.git_history /\ repo.is_git_repo /\ git_analyzer.is_git_repo))

\* C16 witness: a run with --git-history and --format xml on a repository
\* with files wrote its output, with the git collaborator, and returned 0
C16_Witness ==
  /\ pc = "exit" /\ exit_code = IntV(0)
  /\ write_calls = 1 /\ writer = "xml"
  /\ args.format = "xml" /\ args.git_history /\ ~args.dry_run
  /\ git_analyzer # NoneV
  /\ dest = output.root

====
